---- MODULE Spec2Model ----
(***************************************************************************)
(* Model of the policy compliance checker of src/app.py: the audit loop    *)
(* over the uploaded documents, analyze_document with its retry loop, the  *)
(* rate-limit gate wait_for_rate_limit, the upload / readiness / generate  *)
(* / parse phases of one attempt, the error handlers and the cleanup.      *)
(*                                                                         *)
(* Time is kept in whole seconds, as the differences the code computes:    *)
(* time_since_last = time.time() - last_request_time, the time waited for  *)
(* readiness time.time() - start_wait, and the time since the last         *)
(* outbound call.  Each difference is a clock: time.sleep(s) advances all  *)
(* of them by s, an outbound call by a latency drawn from Latency, and a   *)
(* clock stops counting at the largest value the code compares it with.    *)
(* An error text is the set of the signature substrings it contains (the   *)
(* handlers only ever test `substring in text`).  A response text is a     *)
(* sequence of tokens: code-fence markers, prose and one JSON body.        *)
(***************************************************************************)
EXTENDS Integers, Sequences, FiniteSets, TLC

(* ------------------------------ bounds --------------------------------- *)

\* documents uploaded in one audit run: 1..MaxDocs
MaxDocs == 2

\* findings in one model response: 0..MaxFindings
MaxFindings == 2

\* the max_retries argument of the runs that pass one to analyze_document
ScenarioRetries == 3

\* pages of one PDF of the retrieval pipeline: 1..MaxPages
MaxPages == 3

\* PDFs in the folder given to ingest_folder
MaxPdfs == 3

\* pages of a PDF of that folder
MaxPdfPages == 2

(* ------------------------- program constants --------------------------- *)

\* wait_for_rate_limit(min_delay=5), called with min_delay=5
min_delay == 5

\* analyze_document(..., max_retries=2); the audit loop uses the default
max_retries == 2

max_upload_retries == 3

\* time.sleep(2) after a failed upload call
upload_retry_delay == 2

\* max_wait = 30 seconds of readiness polling
max_wait == 30

\* time.sleep(2) at the head of every poll
poll_interval == 2

\* time.sleep(3) after a JSON parse error
json_retry_delay == 3

\* (2 ** attempt) * 10
backoff_base == 10

\* time.sleep(10) after a file processing error
file_retry_delay == 10

\* time.sleep(5) after any other error
other_retry_delay == 5

\* latency of one outbound call, in seconds
Latency == {0, 1}

None == "None"

NoTime == -1

\* COMPLIANCE_RULES (names), cut to its first two entries
COMPLIANCE_RULES == <<"Data Privacy", "Financial Reporting">>

ValidStatuses == {"PASS", "FAIL", "WARNING"}

FallbackDetails == "Analysis completed but response format was unclear. Manual review recommended."

(* ------------------------------ helpers -------------------------------- *)

Range(s) == {s[i] : i \in DOMAIN s}

Min(a, b) == IF a <= b THEN a ELSE b

Pow2(n) == IF n = 0 THEN 1 ELSE IF n = 1 THEN 2 ELSE IF n = 2 THEN 4 ELSE 8

\* the non-empty sub-lists of the catalog, in catalog order (selected_rules)
RuleLists ==
    { <<COMPLIANCE_RULES[1]>>, <<COMPLIANCE_RULES[2]>>, COMPLIANCE_RULES }

(* ---------------------------- error texts ------------------------------ *)

\* the texts of the errors the model service raises, each as the set of the
\* signature substrings it contains
ErrorTexts ==
    { {},
      {"429", "resource exhausted"},
      {"quota"},
      {"api key", "invalid"},
      {"authentication"},
      {"file", "upload"},
      {"file", "processing"},
      {"429", "invalid"},
      {"invalid", "file", "upload"} }

\* the texts of the errors of the local file system: none names the service
FileSystemErrorTexts == { {}, {"file"} }

\* "429" in str(e) or "quota" in error_msg or "rate limit" in error_msg or ...
IsQuotaError(text) ==
    \/ "429" \in text
    \/ "quota" \in text
    \/ "rate limit" \in text
    \/ "resource exhausted" \in text

\* "api key" in error_msg or "invalid" in error_msg or "authentication" in error_msg
IsAuthSignature(text) ==
    \/ "api key" \in text
    \/ "invalid" \in text
    \/ "authentication" \in text

\* "file" in error_msg and ("upload" in error_msg or "processing" in error_msg)
IsFileError(text) ==
    /\ "file" \in text
    /\ ("upload" \in text \/ "processing" \in text)

\* the branch of the except chain an exception lands in
ErrorClass(e) ==
    IF e.kind = "JSONDecodeError" THEN "json"
    ELSE IF IsQuotaError(e.text) THEN "quota"
    ELSE IF IsAuthSignature(e.text) THEN "auth"
    ELSE IF IsFileError(e.text) THEN "file"
    ELSE "other"

NoError == [kind |-> "none", site |-> "none", text |-> {}]

\* an exception raised by the environment (file system or model service)
EnvError(site, text) == [kind |-> "Exception", site |-> site, text |-> text]

\* raise Exception(f"File not ready after {max_wait} seconds")
FileNotReady == [kind |-> "Exception", site |-> "not_ready", text |-> {"file"}]

\* json.loads raising json.JSONDecodeError
DecodeError == [kind |-> "JSONDecodeError", site |-> "decode", text |-> {}]

\* the ValueError of the structure validation; none of its four messages
\* contains a signature substring
ValueError == [kind |-> "Exception", site |-> "validate", text |-> {}]

(* --------------------------- model responses --------------------------- *)

\* rule names the model may put in a finding: the catalog and a foreign one
ModelRules == Range(COMPLIANCE_RULES) \cup {"Unlisted Rule"}

\* status strings the model may put in a finding
ModelStatuses == {"PASS", "FAIL", "WARNING", "MAYBE"}

ModelDetails == {"ok"}

\* a finding of a response: a dict with some of the keys rule, status, details
CompleteFindings ==
    { [rule |-> r, status |-> s, details |-> d] :
        r \in ModelRules, s \in ModelStatuses, d \in ModelDetails }

IncompleteFindings ==
    { [status |-> "PASS", details |-> "ok"],
      [rule |-> COMPLIANCE_RULES[1], details |-> "ok"],
      [rule |-> COMPLIANCE_RULES[1], status |-> "PASS"] }

FindingObjs == CompleteFindings \cup IncompleteFindings

\* the body of a response: json = it parses as JSON; has_key = it has a
\* 'findings' key; is_list = result['findings'] is a list
Garbage == [json |-> FALSE, has_key |-> FALSE, is_list |-> FALSE, findings |-> <<>>]

NoKeyBody == [json |-> TRUE, has_key |-> FALSE, is_list |-> FALSE, findings |-> <<>>]

NotListBody == [json |-> TRUE, has_key |-> TRUE, is_list |-> FALSE, findings |-> <<>>]

ListBody(fs) == [json |-> TRUE, has_key |-> TRUE, is_list |-> TRUE, findings |-> fs]

\* a details string that quotes a code fence: see the ``` block
FenceDetails == "see the (fence) block"

\* one finding whose details quote a code fence
QuotingBody(rules) ==
    ListBody(<<[rule |-> rules[1], status |-> "PASS", details |-> FenceDetails]>>)

\* the JSON text of the body has "```" inside one of its strings
QuotesFence(body) ==
    \E i \in DOMAIN body.findings :
        /\ "details" \in DOMAIN body.findings[i]
        /\ body.findings[i].details = FenceDetails

\* every response body with at most MaxFindings findings
RichBodies ==
    {Garbage, NoKeyBody, NotListBody, QuotingBody(COMPLIANCE_RULES),
     ListBody(<<[rule |-> COMPLIANCE_RULES[1], status |-> "PASS", details |-> "ok"],
                [rule |-> COMPLIANCE_RULES[2], status |-> "FAIL",
                 details |-> "missing disclosure"]>>)}
    \cup { ListBody(fs) : fs \in UNION { [1..n -> FindingObjs] : n \in 0..MaxFindings } }

\* one finding per requested rule, in rule order, all with the same status
PerRule(rules, status) ==
    [i \in DOMAIN rules |-> [rule |-> rules[i], status |-> status, details |-> "ok"]]

\* one finding per requested rule: PASS, FAIL, PASS, ...
Alternating(rules) ==
    [i \in DOMAIN rules |->
        [rule |-> rules[i],
         status |-> IF i % 2 = 1 THEN "PASS" ELSE "FAIL",
         details |-> IF i % 2 = 1 THEN "ok" ELSE "missing disclosure"]]

\* the response bodies tried on every document of a run of several documents
CoreBodies(rules) ==
    { Garbage, NoKeyBody,
      ListBody(Alternating(rules)),
      ListBody(PerRule(rules, "MAYBE")),
      ListBody(<<[rule |-> rules[1], status |-> "PASS", details |-> "ok"]>>),
      QuotingBody(rules) }

Tok(kind, body) == [tok |-> kind, body |-> body]

FenceJson == Tok("fence_json", Garbage)

Fence == Tok("fence", Garbage)

Prose == Tok("prose", Garbage)

\* the JSON text of a body: one piece, or, when one of its strings quotes a
\* fence, the text before the "```", the "```" and the text after it
BodyText(body) ==
    IF QuotesFence(body)
    THEN <<Tok("body_head", body), Fence, Tok("body_tail", body)>>
    ELSE <<Tok("body", body)>>

\* response.text for a body: bare, wrapped in ```json ... ```, wrapped in
\* ``` ... ```, or preceded by prose
ResponseTexts(body) ==
    { BodyText(body),
      <<FenceJson>> \o BodyText(body) \o <<Fence>>,
      <<Fence>> \o BodyText(body) \o <<Fence>>,
      <<Prose>> \o BodyText(body) }

(* ------------------------- parsing and validation ---------------------- *)

MinOf(S) == CHOOSE x \in S : \A y \in S : x <= y

JsonFences(text) == {i \in DOMAIN text : text[i].tok = "fence_json"}

\* "```" is a substring of "```json" too
AnyFences(text) == {i \in DOMAIN text : text[i].tok \in {"fence_json", "fence"}}

\* s.split("```")[0]
UpToFence(text) ==
    IF AnyFences(text) = {} THEN text ELSE SubSeq(text, 1, MinOf(AnyFences(text)) - 1)

\* the removal of markdown formatting
CleanText(text) ==
    IF JsonFences(text) # {}
    THEN UpToFence(SubSeq(text, MinOf(JsonFences(text)) + 1, Len(text)))
    ELSE IF AnyFences(text) # {}
    THEN UpToFence(SubSeq(text, MinOf(AnyFences(text)) + 1, Len(text)))
    ELSE text

\* json.loads(text) succeeds: the text is one JSON value and nothing else
JsonLoads(text) ==
    IF Len(text) = 1 /\ text[1].tok = "body" /\ text[1].body.json
    THEN text[1].body
    ELSE IF text # <<>> /\ text = BodyText(text[1].body)
    THEN text[1].body
    ELSE Garbage

MissingFields(f) == ~ ({"rule", "status", "details"} \subseteq DOMAIN f)

\* FixStatus without the repair: a bad status is left as it is
FixStatus_Unrepaired(f) == f

\* if finding['status'] not in ['PASS', 'FAIL', 'WARNING']: finding['status'] = 'WARNING'
FixStatus(f) ==
    IF f.status \notin ValidStatuses THEN [f EXCEPT !.status = "WARNING"] ELSE f

\* the structure validation raises ValueError
StructureInvalid(body) ==
    \/ ~ body.has_key
    \/ ~ body.is_list
    \/ Len(body.findings) = 0
    \/ \E i \in DOMAIN body.findings : MissingFields(body.findings[i])

\* the validation loop over result['findings'], on a structurally valid body
ValidateFindings(fs) == [i \in DOMAIN fs |-> FixStatus(fs[i])]

\* FallbackResult with a finding for the first rule only
FallbackResult_FirstRuleOnly(rules) ==
    [findings |->
        <<[rule |-> rules[1], status |-> "WARNING", details |-> FallbackDetails]>>]

\* the fallback results of the JSONDecodeError handler
FallbackResult(rules) ==
    [findings |->
        [i \in DOMAIN rules |->
            [rule |-> rules[i], status |-> "WARNING", details |-> FallbackDetails]]]

(* ------------------------------- state --------------------------------- *)

VARIABLES
    uploaded_files,     \* the documents of the run, in upload order (1..n)
    selected_rules,     \* the rule names passed to analyze_document
    idx,                \* the audit loop's position in uploaded_files
    all_results,        \* document_results collected so far
    total_passed,
    total_failed,
    total_warnings,
    results,            \* st.session_state.results
    pc,                 \* position of the run
    attempt,            \* analyze_document: the retry loop's attempt
    tmp_path,           \* analyze_document: temporary file name, NoFile if None
    uploaded_file,      \* analyze_document: attachment handle, NoFile if None
    upload_attempt,     \* analyze_document: the upload loop's counter
    waited,             \* analyze_document: time.time() - start_wait
    file_status,        \* analyze_document: state of the last status check
    response,           \* analyze_document: response.text
    parsed,             \* analyze_document: result['findings'] as json.loads gave it
    result,             \* analyze_document: the parsed and validated result
    err,                \* analyze_document: the exception being handled
    ret,                \* analyze_document: the value being returned
    exit_kind,          \* how the attempt leaves its try block
    time_since_last,    \* time.time() - st.session_state.last_request_time
    tmp_files,          \* temporary files that exist on disk
    remote_files,       \* attachments held by the model service
    since_call,         \* time since the last outbound call was issued
    calls_spaced,       \* no outbound call came less than min_delay after another
    gate_gap,           \* time between the last two passes of the gate
    attempt_log,        \* how each finished attempt of this document ended
    submitted,          \* documents passed to analyze_document, in order
    failed_read,        \* documents whose read raised
    auth_docs,          \* documents that ended in the invalid-key branch
    retry_budget,       \* analyze_document: the max_retries argument
    backoff_wait,       \* time slept in the quota branch during this call
    rv_pc,              \* retrieval pipeline: position of the audit
    rv_uploaded_files,  \* retrieval pipeline: the PDFs, each a list of page texts
    rv_file,            \* retrieval pipeline: position in rv_uploaded_files
    documents,          \* retrieval pipeline: one Document per non-blank page
    chunks,             \* retrieval pipeline: the chunks held by the vector store
    rule_i,             \* retrieval pipeline: position in rules
    rv_results,         \* retrieval pipeline: results, one row per rule so far
    retrieved,          \* retrieval pipeline: the chunks each search returned
    results_df,         \* retrieval pipeline: st.session_state.results_df
    delete_requests,    \* analyze_document: delete requests made in this attempt
    ig_pc,              \* ingestion: position of ingest_folder
    pdfs,               \* ingestion: the PDFs of the folder, each a list of pages
    pdf_i,              \* ingestion: position in pdfs
    raw_text,           \* ingestion: ingest_pdf_to_faiss: the extracted text
    pdf_chunks,         \* ingestion: ingest_pdf_to_faiss: chunks
    written,            \* ingestion: files written to the output directory
    embedded,           \* ingestion: PDFs whose chunks were given to the embedder
    chunkless,          \* ingestion: PDFs for which create_chunks gave no chunk
    ingest_calls,       \* ingestion: PDFs passed to ingest_pdf_to_faiss, in order
    ingest_errors       \* ingestion: PDFs whose ingestion raised

inputs == <<uploaded_files, selected_rules, retry_budget>>

tally == <<all_results, total_passed, total_failed, total_warnings, results>>

history == <<submitted, failed_read, auth_docs>>

locals == <<tmp_path, uploaded_file, upload_attempt, waited, file_status,
            response, parsed, result, err, ret, exit_kind>>

world == <<tmp_files, remote_files>>

clocks == <<time_since_last, since_call>>

gaps == <<calls_spaced, gate_gap>>

retrieval == <<rv_pc, rv_uploaded_files, rv_file, documents, chunks, rule_i,
               rv_results, retrieved, results_df>>

ingestion == <<ig_pc, pdfs, pdf_i, raw_text, pdf_chunks, written, embedded,
               chunkless, ingest_calls, ingest_errors>>

app_vars == <<inputs, idx, tally, pc, attempt, locals, clocks, gaps, world,
              attempt_log, history, backoff_wait, delete_requests>>

vars == <<app_vars, retrieval, ingestion>>

\* the clock of the readiness wait counts up to the first value past the
\* timeout that a poll can end at
WaitedCap == max_wait + poll_interval + 1

\* d seconds pass without an outbound call
Advance(d) ==
    /\ time_since_last' = Min(time_since_last + d, min_delay)
    /\ since_call' = IF since_call = NoTime THEN NoTime ELSE Min(since_call + d, min_delay)
    /\ UNCHANGED calls_spaced

\* d seconds pass, then an outbound call is issued and takes lat seconds
CallAfter(d, lat) ==
    /\ time_since_last' = Min(time_since_last + d + lat, min_delay)
    /\ since_call' = Min(lat, min_delay)
    /\ calls_spaced' = (calls_spaced /\ (since_call = NoTime \/ since_call + d >= min_delay))

NoFile == 0

\* the name of the temporary file and of the attachment of one attempt
FileId(doc, att) == (doc - 1) * retry_budget + att + 1

NoneValue == [is_none |-> TRUE, findings |-> <<>>]

Findings(fs) == [is_none |-> FALSE, findings |-> fs]

\* st.session_state.results_df = None
NoFrame == [is_none |-> TRUE, rows |-> <<>>]

NoReport ==
    [stored |-> FALSE, compliance_rate |-> 0, passed |-> 0, failed |-> 0,
     warnings |-> 0, document_results |-> <<>>]

\* the response bodies the model service may answer with
Bodies ==
    IF Len(uploaded_files) = 1 /\ retry_budget = max_retries
    THEN RichBodies
    ELSE CoreBodies(selected_rules)

\* the state on entering the audit loop of a run over at most ndocs documents
\* in which analyze_document is given max_retries = budget
AppInit(ndocs, budget) ==
    /\ uploaded_files \in { [i \in 1..n |-> i] : n \in 1..ndocs }
    /\ selected_rules \in RuleLists
    /\ retry_budget = budget
    /\ backoff_wait = 0
    /\ delete_requests = 0
    /\ idx = 1
    /\ all_results = <<>>
    /\ total_passed = 0
    /\ total_failed = 0
    /\ total_warnings = 0
    /\ results = NoReport
    /\ pc = "loop"
    /\ attempt = 0
    /\ tmp_path = NoFile
    /\ uploaded_file = NoFile
    /\ upload_attempt = 0
    /\ waited = 0
    /\ file_status = "none"
    /\ response = <<>>
    /\ parsed = <<>>
    /\ result = NoneValue
    /\ err = NoError
    /\ ret = NoneValue
    /\ exit_kind = "none"
    /\ time_since_last \in {min_delay - 2, min_delay}
    /\ tmp_files = {}
    /\ remote_files = {}
    /\ since_call = NoTime
    /\ calls_spaced = TRUE
    /\ gate_gap = NoTime
    /\ attempt_log = <<>>
    /\ submitted = <<>>
    /\ failed_read = {}
    /\ auth_docs = {}

\* the retrieval pipeline is a program of its own: it is not running
RetrievalIdle ==
    /\ rv_pc = "idle"
    /\ rv_uploaded_files = <<>>
    /\ rv_file = 1
    /\ documents = <<>>
    /\ chunks = <<>>
    /\ rule_i = 1
    /\ rv_results = <<>>
    /\ retrieved = <<>>
    /\ results_df = NoFrame

\* the ingestion of src/pipeline.py is a program of its own: it is not running
IngestionIdle ==
    /\ ig_pc = "idle"
    /\ pdfs = <<>>
    /\ pdf_i = 1
    /\ raw_text = <<>>
    /\ pdf_chunks = <<>>
    /\ written = {}
    /\ embedded = {}
    /\ chunkless = {}
    /\ ingest_calls = <<>>
    /\ ingest_errors = {}

\* the audit loop calls analyze_document(pdf_bytes, name, selected_rules):
\* max_retries keeps its default
Init == AppInit(MaxDocs, max_retries) /\ RetrievalIdle /\ IngestionIdle

\* analyze_document called on one document with max_retries = ScenarioRetries
InitRetries == AppInit(1, ScenarioRetries) /\ RetrievalIdle /\ IngestionIdle

(* ----------------------------- audit loop ------------------------------ *)

FreshLocals ==
    /\ tmp_path' = NoFile
    /\ uploaded_file' = NoFile
    /\ upload_attempt' = 0
    /\ waited' = 0
    /\ file_status' = "none"
    /\ response' = <<>>
    /\ parsed' = <<>>
    /\ result' = NoneValue
    /\ err' = NoError
    /\ ret' = NoneValue
    /\ exit_kind' = "none"

\* for idx, uploaded_file in enumerate(uploaded_files): read the PDF and call
\* analyze_document
StartDocument ==
    /\ pc = "loop"
    /\ idx <= Len(uploaded_files)
    /\ pc' = "gate"
    /\ attempt' = 0
    /\ attempt_log' = <<>>
    /\ submitted' = Append(submitted, uploaded_files[idx])
    /\ backoff_wait' = 0
    /\ FreshLocals
    /\ UNCHANGED <<inputs, retrieval, ingestion, delete_requests, idx, tally, clocks, gaps, world, failed_read,
                   auth_docs>>

\* uploaded_file.read() raises: except Exception reports it, the loop goes on
ReadFails ==
    /\ pc = "loop"
    /\ idx <= Len(uploaded_files)
    /\ failed_read' = failed_read \cup {uploaded_files[idx]}
    /\ idx' = idx + 1
    /\ UNCHANGED <<inputs, retrieval, ingestion, delete_requests, backoff_wait, tally, pc, attempt, locals, clocks, gaps, world,
                   attempt_log, submitted, auth_docs>>

\* finding.get('status', 'WARNING').upper()
Upper(status) ==
    IF status \in {"pass", "PASS"} THEN "PASS"
    ELSE IF status \in {"fail", "FAIL"} THEN "FAIL"
    ELSE IF status \in {"warning", "WARNING"} THEN "WARNING"
    ELSE IF status = "maybe" THEN "MAYBE"
    ELSE status

\* CountStatus looking at the first finding only
CountStatus_FirstOnly(fs, status) ==
    IF fs # <<>> /\ Upper(fs[1].status) = status THEN 1 ELSE 0

CountStatus(fs, status) ==
    Cardinality({i \in DOMAIN fs : Upper(fs[i].status) = status})

\* CountOther of a loop that counts no warning
CountOther_Dropped(fs) == 0

\* the statuses counted as warnings: everything but PASS and FAIL
CountOther(fs) ==
    Cardinality({i \in DOMAIN fs : Upper(fs[i].status) \notin {"PASS", "FAIL"}})

\* NextIndex leaving the loop when a document returned no result
NextIndex_AbortOnFailure(i, returned) ==
    IF returned.is_none THEN Len(uploaded_files) + 1 ELSE i + 1

\* the for loop goes on to the next document whatever the last one returned
NextIndex(i, returned) == i + 1

\* back in the audit loop with the value analyze_document returned
CollectResult ==
    /\ pc = "returned"
    /\ IF ~ ret.is_none
       THEN /\ total_passed' = total_passed + CountStatus(ret.findings, "PASS")
            /\ total_failed' = total_failed + CountStatus(ret.findings, "FAIL")
            /\ total_warnings' = total_warnings + CountOther(ret.findings)
            /\ all_results' = Append(all_results,
                   [document_name |-> uploaded_files[idx], findings |-> ret.findings])
       ELSE UNCHANGED <<all_results, total_passed, total_failed, total_warnings>>
    /\ idx' = NextIndex(idx, ret)
    /\ pc' = "loop"
    /\ attempt' = 0
    /\ attempt_log' = <<>>
    /\ backoff_wait' = 0
    /\ delete_requests' = 0
    /\ FreshLocals
    /\ UNCHANGED <<inputs, retrieval, ingestion, results, clocks, gaps, world, history>>

\* ComplianceRate reporting full compliance when nothing was counted
ComplianceRate_EmptyIsFull(passed, total) ==
    IF total > 0 THEN (passed * 100) \div total ELSE 100

\* int((total_passed / total_checks * 100)) if total_checks > 0 else 0: int()
\* cuts the fraction off.  (The quotient and the product are floating-point
\* operations; for the totals of this model, at most MaxDocs * MaxFindings,
\* their result is cut to the same integer as the exact quotient.)
ComplianceRate(passed, total) ==
    IF total > 0 THEN (passed * 100) \div total ELSE 0

\* after the loop: compute the rate and store the report
StoreReport ==
    /\ pc = "loop"
    /\ idx > Len(uploaded_files)
    /\ results' =
         [stored |-> TRUE,
          compliance_rate |->
              ComplianceRate(total_passed, total_passed + total_failed + total_warnings),
          passed |-> total_passed,
          failed |-> total_failed,
          warnings |-> total_warnings,
          document_results |-> all_results]
    /\ pc' = "done"
    /\ UNCHANGED <<inputs, retrieval, ingestion, delete_requests, backoff_wait, idx, all_results, total_passed, total_failed,
                   total_warnings, attempt, locals, clocks, gaps, world,
                   attempt_log, history>>

(* --------------------------- analyze_document -------------------------- *)

\* WaitTime of a gate that never sleeps
WaitTime_NoSleep(since) == 0

\* wait_time = min_delay - time_since_last, slept when time_since_last < min_delay
WaitTime(since) == IF since < min_delay THEN min_delay - since ELSE 0

\* head of the retry loop: tmp_path = uploaded_file = None, then
\* wait_for_rate_limit(min_delay=5): sleep, then last_request_time = time.time()
RateLimitGate ==
    /\ pc = "gate"
    /\ gate_gap' = Min(time_since_last + WaitTime(time_since_last), min_delay)
    /\ time_since_last' = 0
    /\ since_call' = IF since_call = NoTime THEN NoTime
                     ELSE Min(since_call + WaitTime(time_since_last), min_delay)
    /\ tmp_path' = NoFile
    /\ uploaded_file' = NoFile
    /\ pc' = "tmpfile"
    /\ delete_requests' = 0
    /\ UNCHANGED <<inputs, retrieval, ingestion, backoff_wait, idx, tally, attempt, upload_attempt, waited,
                   file_status, response, parsed, result, err, ret, exit_kind,
                   calls_spaced, world, attempt_log, history>>

\* with tempfile.NamedTemporaryFile(delete=False, ...) as tmp_file: the file is
\* created, written, and only then is tmp_path assigned; a failing write
\* leaves the file behind with tmp_path still None
WriteTempFile ==
    /\ pc = "tmpfile"
    /\ tmp_files' = tmp_files \cup {FileId(idx, attempt)}
    /\ \/ /\ tmp_path' = FileId(idx, attempt)
          /\ upload_attempt' = 0
          /\ pc' = "upload"
          /\ UNCHANGED err
       \/ /\ \E text \in FileSystemErrorTexts : err' = EnvError("tmpfile", text)
          /\ pc' = "except"
          /\ UNCHANGED <<tmp_path, upload_attempt>>
    /\ UNCHANGED <<inputs, retrieval, ingestion, delete_requests, backoff_wait, idx, tally, attempt, uploaded_file, waited,
                   file_status, response, parsed, result, ret, exit_kind,
                   clocks, gaps, remote_files, attempt_log, history>>

\* one call of genai.upload_file inside the upload loop; on success the loop
\* is left (its counter is not read again) and start_wait is taken
UploadFile ==
    /\ pc = "upload"
    /\ \E lat \in Latency : CallAfter(0, lat)
    /\ \/ /\ uploaded_file' = FileId(idx, attempt)
          /\ remote_files' = remote_files \cup {FileId(idx, attempt)}
          /\ upload_attempt' = 0
          /\ waited' = 0
          /\ pc' = "poll"
          /\ UNCHANGED err
       \/ /\ \E text \in ErrorTexts : err' = EnvError("upload", text)
          /\ pc' = "upload_except"
          /\ UNCHANGED <<uploaded_file, remote_files, upload_attempt, waited>>
    /\ UNCHANGED <<inputs, retrieval, ingestion, delete_requests, backoff_wait, idx, tally, attempt, tmp_path,
                   file_status, response, parsed, result, ret, exit_kind,
                   gate_gap, tmp_files, attempt_log, history>>

\* UploadRetries giving up after the second call
UploadRetries_Twice(n) == n < 1

\* if upload_attempt < max_upload_retries - 1
UploadRetries(n) == n < max_upload_retries - 1

\* except Exception as upload_error: sleep and call again, or raise after
\* the last call
UploadExcept ==
    /\ pc = "upload_except"
    /\ IF UploadRetries(upload_attempt)
       THEN /\ Advance(upload_retry_delay)
            /\ upload_attempt' = upload_attempt + 1
            /\ err' = NoError
            /\ pc' = "upload"
       ELSE /\ pc' = "except"
            /\ upload_attempt' = 0
            /\ UNCHANGED <<clocks, calls_spaced, err>>
    /\ UNCHANGED <<inputs, retrieval, ingestion, delete_requests, backoff_wait, idx, tally, attempt, tmp_path, uploaded_file,
                   waited, file_status, response, parsed, result, ret,
                   exit_kind, gate_gap, world, attempt_log, history>>

\* what genai.get_file can report: an attachment seen ACTIVE stays ACTIVE
StatusOutcomes == IF file_status = "ACTIVE" THEN {"ACTIVE"} ELSE {"PROCESSING", "ACTIVE"}

\* PollAgain letting one more poll start when the timeout has just elapsed
PollAgain_AtTimeout(w) == w <= max_wait

\* PollAgain of a readiness loop without a timeout
PollAgain_NoTimeout(w) == TRUE

\* while (time.time() - start_wait) < max_wait
PollAgain(w) == w < max_wait

\* one turn of the readiness loop: sleep, ask for the status, break on
\* ACTIVE, go on after any exception
PollStatus ==
    /\ pc = "poll"
    /\ PollAgain(waited)
    /\ \E lat \in Latency :
         /\ CallAfter(poll_interval, lat)
         /\ waited' = Min(waited + poll_interval + lat, WaitedCap)
    /\ \/ \E st \in StatusOutcomes :
            /\ file_status' = st
            /\ pc' = IF st = "ACTIVE" THEN "final_check" ELSE "poll"
       \/ UNCHANGED <<file_status, pc>>
    /\ UNCHANGED <<inputs, retrieval, ingestion, delete_requests, backoff_wait, idx, tally, attempt, tmp_path, uploaded_file,
                   upload_attempt, response, parsed, result, err, ret,
                   exit_kind, gate_gap, world, attempt_log, history>>

\* IsReady of a final check that lets every state through
IsReady_AnyState(state) == TRUE

\* not (file_status.state.name != "ACTIVE")
IsReady(state) == state = "ACTIVE"

\* after the loop (break or timeout): the final status check
FinalCheck ==
    /\ \/ pc = "final_check"
       \/ pc = "poll" /\ ~ PollAgain(waited)
    /\ \E lat \in Latency : CallAfter(0, lat)
    /\ waited' = 0
    /\ \/ \E st \in StatusOutcomes :
            /\ file_status' = st
            /\ IF IsReady(st)
               THEN pc' = "generate" /\ UNCHANGED err
               ELSE pc' = "except" /\ err' = FileNotReady
       \/ /\ \E text \in ErrorTexts : err' = EnvError("final_check", text)
          /\ pc' = "except"
          /\ UNCHANGED file_status
    /\ UNCHANGED <<inputs, retrieval, ingestion, delete_requests, backoff_wait, idx, tally, attempt, tmp_path, uploaded_file,
                   upload_attempt, response, parsed, result, ret, exit_kind,
                   gate_gap, world, attempt_log, history>>

\* response = model.generate_content([prompt, uploaded_file])
GenerateContent ==
    /\ pc = "generate"
    /\ \E lat \in Latency : CallAfter(0, lat)
    /\ \/ /\ \E body \in Bodies : response' \in ResponseTexts(body)
          /\ pc' = "parse"
          /\ UNCHANGED err
       \/ /\ \E text \in ErrorTexts : err' = EnvError("generate", text)
          /\ pc' = "except"
          /\ UNCHANGED response
    /\ UNCHANGED <<inputs, retrieval, ingestion, delete_requests, backoff_wait, idx, tally, attempt, tmp_path, uploaded_file,
                   upload_attempt, waited, file_status, parsed, result, ret,
                   exit_kind, gate_gap, world, attempt_log, history>>

\* clean the text (which replaces it), json.loads, validate the structure,
\* repair the statuses
ParseResponse ==
    /\ pc = "parse"
    /\ response' = <<>>
    /\ LET body == JsonLoads(CleanText(response)) IN
         IF ~ body.json
         THEN /\ err' = DecodeError
              /\ pc' = "except"
              /\ UNCHANGED <<parsed, result>>
         ELSE IF StructureInvalid(body)
         THEN /\ err' = ValueError
              /\ pc' = "except"
              /\ UNCHANGED <<parsed, result>>
         ELSE /\ parsed' = body.findings
              /\ result' = Findings(ValidateFindings(body.findings))
              /\ pc' = "cleanup"
              /\ UNCHANGED err
    /\ UNCHANGED <<inputs, retrieval, ingestion, delete_requests, backoff_wait, idx, tally, attempt, tmp_path, uploaded_file,
                   upload_attempt, waited, file_status, ret,
                   exit_kind, clocks, gaps, world, attempt_log, history>>

\* the clean-up of the success path: delete the attachment, unlink the
\* temporary file, return result (the delete request is taken to succeed: its
\* except clause only hides a request that failed)
CleanupSuccess ==
    /\ pc = "cleanup"
    /\ \E lat \in Latency : CallAfter(0, lat)
    /\ remote_files' = remote_files \ {uploaded_file}
    /\ delete_requests' = delete_requests + 1
    /\ tmp_files' = tmp_files \ {tmp_path}
    /\ ret' = result
    /\ exit_kind' = "return"
    /\ attempt_log' = Append(attempt_log, "success")
    /\ pc' = "finally"
    /\ UNCHANGED <<inputs, retrieval, ingestion, backoff_wait, idx, tally, attempt, tmp_path, uploaded_file,
                   upload_attempt, waited, file_status, response, parsed,
                   result, err, gate_gap, history>>

\* RetryDelay with a quota wait that does not grow with the attempt
RetryDelay_FlatBackoff(class, att) ==
    IF class = "json" THEN json_retry_delay
    ELSE IF class = "quota" THEN backoff_base
    ELSE IF class = "file" THEN file_retry_delay
    ELSE other_retry_delay

\* time.sleep before the next attempt, by the branch of the except chain
RetryDelay(class, att) ==
    IF class = "json" THEN json_retry_delay
    ELSE IF class = "quota" THEN Pow2(att) * backoff_base
    ELSE IF class = "file" THEN file_retry_delay
    ELSE other_retry_delay

\* the branch retries while attempts remain; the invalid-key branch never does
Retries(class, att) == class # "auth" /\ att < retry_budget - 1

\* what the branch returns when it does not retry
HandlerReturn(class, rules) ==
    IF class = "json" THEN Findings(FallbackResult(rules).findings) ELSE NoneValue

\* how an attempt that raised is logged: a parse or validation failure by
\* where it was raised, any other by the branch that handled it
LogTag(e) == IF e.site \in {"decode", "validate"} THEN e.site ELSE ErrorClass(e)

\* except json.JSONDecodeError / except Exception
HandleError ==
    /\ pc = "except"
    /\ LET class == ErrorClass(err) IN
         /\ IF Retries(class, attempt)
            THEN /\ Advance(RetryDelay(class, attempt))
                 /\ backoff_wait' = IF class = "quota"
                                    THEN backoff_wait + RetryDelay(class, attempt)
                                    ELSE backoff_wait
                 /\ exit_kind' = "next"
                 /\ UNCHANGED ret
            ELSE /\ ret' = HandlerReturn(class, selected_rules)
                 /\ exit_kind' = "return"
                 /\ UNCHANGED <<clocks, calls_spaced, backoff_wait>>
         /\ auth_docs' = IF class = "auth" THEN auth_docs \cup {uploaded_files[idx]}
                         ELSE auth_docs
    /\ attempt_log' = Append(attempt_log, LogTag(err))
    /\ pc' = "finally"
    /\ UNCHANGED <<inputs, retrieval, ingestion, delete_requests, idx, tally, attempt, tmp_path, uploaded_file,
                   upload_attempt, waited, file_status, response, parsed,
                   result, err, gate_gap, world, submitted, failed_read>>

\* for attempt in range(max_retries): another value follows att
MoreAttempts(att) == att + 1 < retry_budget

\* finally: delete the attachment if uploaded_file is set, unlink tmp_path if
\* it is set and exists; then return, or go to the next attempt, or fall out
\* of the loop to the last return None
Finally ==
    /\ pc = "finally"
    /\ IF uploaded_file # NoFile
       THEN /\ \E lat \in Latency : CallAfter(0, lat)
            /\ remote_files' = remote_files \ {uploaded_file}
            /\ delete_requests' = delete_requests + 1
       ELSE UNCHANGED <<clocks, calls_spaced, remote_files, delete_requests>>
    /\ tmp_files' = IF tmp_path # NoFile THEN tmp_files \ {tmp_path} ELSE tmp_files
    /\ IF exit_kind = "return"
       THEN /\ pc' = "returned"
            /\ UNCHANGED <<attempt, ret>>
       ELSE IF MoreAttempts(attempt)
       THEN /\ pc' = "gate"
            /\ attempt' = attempt + 1
            /\ UNCHANGED ret
       ELSE /\ pc' = "returned"
            /\ ret' = NoneValue
            /\ UNCHANGED attempt
    /\ tmp_path' = NoFile
    /\ uploaded_file' = NoFile
    /\ upload_attempt' = 0
    /\ waited' = 0
    /\ file_status' = "none"
    /\ response' = <<>>
    /\ parsed' = <<>>
    /\ result' = NoneValue
    /\ err' = NoError
    /\ exit_kind' = "none"
    /\ UNCHANGED <<inputs, retrieval, ingestion, backoff_wait, idx, tally, gate_gap, attempt_log, history>>

Next ==
    \/ StartDocument
    \/ ReadFails
    \/ RateLimitGate
    \/ WriteTempFile
    \/ UploadFile
    \/ UploadExcept
    \/ PollStatus
    \/ FinalCheck
    \/ GenerateContent
    \/ ParseResponse
    \/ CleanupSuccess
    \/ HandleError
    \/ Finally
    \/ CollectResult
    \/ StoreReport

Spec == Init /\ [][Next]_vars

\* the same program, analyze_document being given max_retries = ScenarioRetries
SpecRetries == InitRetries /\ [][Next]_vars

(* ------------------------- retrieval pipeline -------------------------- *)
(* The audit of src/unnamed/part_000: the pages of the uploaded PDFs become *)
(* Documents, the Documents chunks of a vector store, and every rule is     *)
(* scored by the chunks a similarity search returns for its description.    *)
(* A text is the sequence of its characters.                                *)

\* similarity_search(rule["description"], k=5)
k == 5

\* rules, cut to RULE_003 and RULE_009
rv_rules ==
    << [id |-> "RULE_003", name |-> "Multi-Factor Authentication",
        category |-> "Access Control", severity |-> "CRITICAL",
        description |-> <<"M", "F", "A", " ", "m", "a", "n", "d", "a", "t", "o", "r", "y", " ", "u", "s", "e", "r", "s">>],
       [id |-> "RULE_009", name |-> "Security Audits",
        category |-> "Audit and Compliance", severity |-> "HIGH",
        description |-> <<"a", "u", "d", "i", "t", "s", " ", "a", "n", "n", "u", "a", "l", "l", "y">>] >>

\* the texts a page of a PDF may hold; the last one is a blank page
PageTexts ==
    { <<"M", "F", "A", " ", "U", "s", "e", "r", "s">>,
      <<"M", "F", "A">>,
      <<"a", "u", "d", "i", "t", "s">>,
      <<" ">> }

\* one character of str.lower()
LowerChar(c) ==
    CASE c = "A" -> "a"
      [] c = "F" -> "f"
      [] c = "M" -> "m"
      [] c = "U" -> "u"
      [] OTHER -> c

\* str.lower()
LowerText(t) == [i \in DOMAIN t |-> LowerChar(t[i])]

\* IsBlank taking only the empty text for blank
IsBlank_EmptyOnly(t) == t = <<>>

\* not text.strip(): the text holds nothing but white space
IsBlank(t) == \A i \in DOMAIN t : t[i] = " "

\* sub in t
Contains(sub, t) ==
    \E i \in 0..(Len(t) - Len(sub)) : SubSeq(t, i + 1, i + Len(sub)) = sub

\* str.split(): the maximal runs of characters that are not white space,
\* read from position i on, word being the run under way
RECURSIVE SplitFrom(_, _, _)
SplitFrom(t, i, word) ==
    IF i > Len(t) THEN (IF word = <<>> THEN <<>> ELSE <<word>>)
    ELSE IF t[i] = " "
    THEN (IF word = <<>> THEN <<>> ELSE <<word>>) \o SplitFrom(t, i + 1, <<>>)
    ELSE SplitFrom(t, i + 1, Append(word, t[i]))

Split(t) == SplitFrom(t, 1, <<>>)

\* page.extract_text() returns None for the page
NoText == <<"None">>

\* page.extract_text() raises for the page
Unreadable == <<"raises">>

\* what the extraction of one page may give
PageOutcomes == PageTexts \cup {NoText, Unreadable}

\* the loop body raises on the page: extract_text() itself, or text.strip()
\* on None
PageRaises(p) == p \in {NoText, Unreadable}

\* the Documents appended for the pages from page_num on, up to the first
\* page the loop body raises on
RECURSIVE PageDocuments(_, _, _)
PageDocuments(source, pages, page_num) ==
    IF page_num > Len(pages) THEN <<>>
    ELSE IF PageRaises(pages[page_num]) THEN <<>>
    ELSE (IF IsBlank(pages[page_num]) THEN <<>>
          ELSE <<[page_content |-> pages[page_num], source |-> source,
                  page |-> page_num]>>)
         \o PageDocuments(source, pages, page_num + 1)

\* text_splitter.split_documents(documents) with chunk_size=1000: a page
\* text shorter than the chunk size is one chunk, with the page's metadata
SplitDocuments(docs) == docs

\* what a similarity search may return: any k chunks of the store, all of
\* them when the store holds fewer (the ranking is the embedding's)
SimilaritySearch(store) ==
    { S \in SUBSET DOMAIN store : Cardinality(S) = Min(k, Len(store)) }

\* any(kw in doc.page_content.lower() for kw in keywords)
HasKeyword(content, keywords) ==
    \E j \in DOMAIN keywords : Contains(keywords[j], LowerText(content))

\* sum(1 for doc in docs if any(...)), keywords = rule["description"].split()
Evidence(docs, description) ==
    Cardinality({ i \in docs : HasKeyword(chunks[i].page_content, Split(description)) })

\* StatusOf with the COMPLIANT threshold at 2
StatusOf_LowThreshold(evidence) ==
    IF evidence >= 2 THEN "COMPLIANT"
    ELSE IF evidence >= 1 THEN "PARTIAL"
    ELSE "NON_COMPLIANT"

\* "COMPLIANT" if evidence >= 3 else "PARTIAL" if evidence >= 1 else "NON_COMPLIANT"
StatusOf(evidence) ==
    IF evidence >= 3 THEN "COMPLIANT"
    ELSE IF evidence >= 1 THEN "PARTIAL"
    ELSE "NON_COMPLIANT"

\* 0.8 if evidence >= 3 else 0.5 if evidence >= 1 else 0.3, in tenths
ConfidenceOf(evidence) ==
    IF evidence >= 3 THEN 8
    ELSE IF evidence >= 1 THEN 5
    ELSE 3

\* f"{confidence:.0%}" of a confidence given in tenths
FormatPercent(tenths) ==
    CASE tenths = 8 -> "80%"
      [] tenths = 5 -> "50%"
      [] tenths = 3 -> "30%"
      [] OTHER -> "?"

\* the row appended to results for one rule
ResultRow(rule, evidence) ==
    [Rule_ID |-> rule.id,
     Rule_Name |-> rule.name,
     Category |-> rule.category,
     Severity |-> rule.severity,
     Status |-> StatusOf(evidence),
     Confidence |-> FormatPercent(ConfidenceOf(evidence)),
     Evidence |-> evidence]

\* the policy checker of src/app.py is a program of its own: it is not running
AppIdle ==
    /\ AppInit(1, max_retries)
    /\ selected_rules = COMPLIANCE_RULES
    /\ time_since_last = min_delay

\* Run Audit pressed with an API key and at least one PDF uploaded
RetrievalInit ==
    /\ AppIdle
    /\ IngestionIdle
    /\ rv_pc = "ingest"
    /\ rv_uploaded_files \in
         UNION { [1..n -> UNION { [1..m -> PageOutcomes] : m \in 1..MaxPages }] :
                 n \in 1..MaxDocs }
    /\ rv_file = 1
    /\ documents = <<>>
    /\ chunks = <<>>
    /\ rule_i = 1
    /\ rv_results = <<>>
    /\ retrieved = <<>>
    /\ results_df \in {NoFrame}

\* for uploaded_file in uploaded_files: write the PDF, read its pages; an
\* exception raised in the page loop leaves it for the except clause of the
\* audit
IngestPdf ==
    /\ rv_pc = "ingest"
    /\ rv_file <= Len(rv_uploaded_files)
    /\ documents' = documents \o PageDocuments(rv_file, rv_uploaded_files[rv_file], 1)
    /\ IF \E n \in DOMAIN rv_uploaded_files[rv_file] :
              PageRaises(rv_uploaded_files[rv_file][n])
       THEN rv_pc' = "error" /\ UNCHANGED rv_file
       ELSE rv_file' = rv_file + 1 /\ UNCHANGED rv_pc
    /\ UNCHANGED <<app_vars, ingestion, rv_uploaded_files, chunks, rule_i, rv_results,
                   retrieved, results_df>>

\* split the Documents and build the vector store: the embedding request
\* succeeds or raises
BuildVectorstore ==
    /\ rv_pc = "ingest"
    /\ rv_file > Len(rv_uploaded_files)
    /\ \/ /\ chunks' = SplitDocuments(documents)
          /\ rv_pc' = "rules"
       \/ /\ rv_pc' = "error"
          /\ UNCHANGED chunks
    /\ UNCHANGED <<app_vars, ingestion, rv_uploaded_files, rv_file, documents, rule_i,
                   rv_results, retrieved, results_df>>

\* one turn of for i, rule in enumerate(rules): search, count, append the
\* row; or the search raises
EvaluateRule ==
    /\ rv_pc = "rules"
    /\ rule_i <= Len(rv_rules)
    /\ \/ \E docs \in SimilaritySearch(chunks) :
            /\ rv_results' = Append(rv_results,
                   ResultRow(rv_rules[rule_i], Evidence(docs, rv_rules[rule_i].description)))
            /\ retrieved' = Append(retrieved, docs)
            /\ rule_i' = rule_i + 1
            /\ UNCHANGED rv_pc
       \/ /\ rv_pc' = "error"
          /\ UNCHANGED <<rv_results, retrieved, rule_i>>
    /\ UNCHANGED <<app_vars, ingestion, rv_uploaded_files, rv_file, documents, chunks,
                   results_df>>

\* st.session_state.results_df = pd.DataFrame(results)
StoreFrame ==
    /\ rv_pc = "rules"
    /\ rule_i > Len(rv_rules)
    /\ results_df' = [is_none |-> FALSE, rows |-> rv_results]
    /\ rv_pc' = "done"
    /\ UNCHANGED <<app_vars, ingestion, rv_uploaded_files, rv_file, documents, chunks, rule_i,
                   rv_results, retrieved>>

RetrievalNext ==
    \/ IngestPdf
    \/ BuildVectorstore
    \/ EvaluateRule
    \/ StoreFrame

RetrievalSpec == RetrievalInit /\ [][RetrievalNext]_vars

(* ------------------------- ingestion pipeline -------------------------- *)
(* ingest_folder and ingest_pdf_to_faiss of src/pipeline.py: every PDF of a  *)
(* folder is read, cut into chunks, embedded and written to the output      *)
(* directory as an index file, a metadata file and a chunks file.           *)

\* what page.extract_text() may give for a page of a PDF of the folder
PdfPageOutcomes == {<<"M", "F", "A">>, <<" ">>, <<>>, NoText, Unreadable}

\* the PDFs a folder may hold: up to MaxPdfPages pages each
PdfFiles == UNION { [1..m -> PdfPageOutcomes] : m \in 0..MaxPdfPages }

\* page.extract_text() or ""
PageTextOrEmpty(p) == IF p = NoText THEN <<>> ELSE p

\* "\n".join(texts) over the pages from i on
RECURSIVE JoinPages(_, _)
JoinPages(pages, i) ==
    IF i > Len(pages) THEN <<>>
    ELSE IF i = Len(pages) THEN PageTextOrEmpty(pages[i])
    ELSE PageTextOrEmpty(pages[i]) \o <<"\n">> \o JoinPages(pages, i + 1)

\* the characters str.strip() removes
WhiteSpace == {" ", "\n"}

\* text.strip(): the text without its leading and trailing white space
RECURSIVE Strip(_)
Strip(t) ==
    IF t = <<>> THEN <<>>
    ELSE IF Head(t) \in WhiteSpace THEN Strip(Tail(t))
    ELSE IF t[Len(t)] \in WhiteSpace THEN Strip(SubSeq(t, 1, Len(t) - 1))
    ELSE t

\* PDFIngestor.create_chunks: the splitter strips each piece and drops the
\* empty ones; a text shorter than chunk_size is one piece
CreateChunksOf(text) ==
    IF Strip(text) = <<>> THEN <<>>
    ELSE << [id |-> "chunk-0", text |-> Strip(text)] >>

\* NoChunks of an ingestion that embeds whatever create_chunks returned
NoChunks_Never(cs) == FALSE

\* if not chunks
NoChunks(cs) == cs = <<>>

\* the files ingest_pdf_to_faiss writes for a PDF
FileKinds == {"faiss.index", "meta.pkl", "chunks.json"}

IngestInit ==
    /\ AppIdle
    /\ RetrievalIdle
    /\ ig_pc = "start"
    /\ pdfs \in UNION { [1..n -> PdfFiles] : n \in 0..MaxPdfs }
    /\ pdf_i = 1
    /\ raw_text = <<>>
    /\ pdf_chunks = <<>>
    /\ written = {}
    /\ embedded = {}
    /\ chunkless = {}
    /\ ingest_calls = <<>>
    /\ ingest_errors = {}

\* ingest_pdf_to_faiss is left: its locals are gone, the loop takes the next PDF
LeavePdf ==
    /\ ig_pc' = "loop"
    /\ pdf_i' = pdf_i + 1
    /\ raw_text' = <<>>
    /\ pdf_chunks' = <<>>

\* an exception leaves ingest_pdf_to_faiss: except Exception as e prints it
IngestRaises ==
    /\ ingest_errors' = ingest_errors \cup {pdf_i}
    /\ LeavePdf

\* ingest_folder up to its loop: a missing folder or a folder without PDFs
\* returns at once
ListFolder ==
    /\ ig_pc = "start"
    /\ ig_pc' = IF pdfs = <<>> THEN "returned_early" ELSE "loop"
    /\ UNCHANGED <<app_vars, retrieval, pdfs, pdf_i, raw_text, pdf_chunks, written,
                   embedded, chunkless, ingest_calls, ingest_errors>>

\* for pdf in pdfs: ingest_pdf_to_faiss(str(pdf), out) begins: out.mkdir and
\* PDFIngestor(), which loads the embedding model, return or raise
ProcessPdf ==
    /\ ig_pc = "loop"
    /\ pdf_i <= Len(pdfs)
    /\ ingest_calls' = Append(ingest_calls, pdf_i)
    /\ \/ /\ ig_pc' = "extract"
          /\ UNCHANGED <<pdf_i, raw_text, pdf_chunks, ingest_errors>>
       \/ IngestRaises
    /\ UNCHANGED <<app_vars, retrieval, pdfs, written, embedded, chunkless>>

\* raw_text = ingestor.extract_text(pdf): opening or reading the file may
\* raise, a page that cannot be read does
ExtractText ==
    /\ ig_pc = "extract"
    /\ \/ /\ \A i \in DOMAIN pdfs[pdf_i] : pdfs[pdf_i][i] # Unreadable
          /\ raw_text' = JoinPages(pdfs[pdf_i], 1)
          /\ ig_pc' = "chunk"
          /\ UNCHANGED <<pdf_i, pdf_chunks, ingest_errors>>
       \/ IngestRaises
    /\ UNCHANGED <<app_vars, retrieval, pdfs, written, embedded, chunkless,
                   ingest_calls>>

\* chunks = ingestor.create_chunks(raw_text); if not chunks: print and return
CreateChunks ==
    /\ ig_pc = "chunk"
    /\ LET cs == CreateChunksOf(raw_text) IN
         /\ chunkless' = IF cs = <<>> THEN chunkless \cup {pdf_i} ELSE chunkless
         /\ IF NoChunks(cs)
            THEN LeavePdf
            ELSE /\ pdf_chunks' = cs
                 /\ ig_pc' = "embed"
                 /\ UNCHANGED <<pdf_i, raw_text>>
    /\ UNCHANGED <<app_vars, retrieval, pdfs, written, embedded, ingest_calls,
                   ingest_errors>>

\* embeddings = ingestor.embed_chunks(chunks)
EmbedChunks ==
    /\ ig_pc = "embed"
    /\ embedded' = embedded \cup {pdf_i}
    /\ \/ /\ ig_pc' = "index"
          /\ UNCHANGED <<pdf_i, raw_text, pdf_chunks, ingest_errors>>
       \/ IngestRaises
    /\ UNCHANGED <<app_vars, retrieval, pdfs, written, chunkless, ingest_calls>>

\* build_faiss_index: the index is built and written, then the metadata file;
\* it may raise before the first file or between the two
BuildFaissIndex ==
    /\ ig_pc = "index"
    /\ \/ /\ written' = written \cup {<<pdf_i, "faiss.index">>, <<pdf_i, "meta.pkl">>}
          /\ ig_pc' = "chunks_file"
          /\ UNCHANGED <<pdf_i, raw_text, pdf_chunks, ingest_errors>>
       \/ /\ written' = written \cup {<<pdf_i, "faiss.index">>}
          /\ IngestRaises
       \/ /\ UNCHANGED written
          /\ IngestRaises
    /\ UNCHANGED <<app_vars, retrieval, pdfs, embedded, chunkless, ingest_calls>>

\* json.dump(chunks, f) into <stem>.chunks.json, then print("Ingested:", ...)
WriteChunksFile ==
    /\ ig_pc = "chunks_file"
    /\ \/ /\ written' = written \cup {<<pdf_i, "chunks.json">>}
          /\ LeavePdf
          /\ UNCHANGED ingest_errors
       \/ /\ UNCHANGED written
          /\ IngestRaises
    /\ UNCHANGED <<app_vars, retrieval, pdfs, embedded, chunkless, ingest_calls>>

\* after the loop: print("Ingestion completed.")
FinishFolder ==
    /\ ig_pc = "loop"
    /\ pdf_i > Len(pdfs)
    /\ ig_pc' = "completed"
    /\ UNCHANGED <<app_vars, retrieval, pdfs, pdf_i, raw_text, pdf_chunks, written,
                   embedded, chunkless, ingest_calls, ingest_errors>>

IngestNext ==
    \/ ListFolder
    \/ ProcessPdf
    \/ ExtractText
    \/ CreateChunks
    \/ EmbedChunks
    \/ BuildFaissIndex
    \/ WriteChunksFile
    \/ FinishFolder

IngestSpec == IngestInit /\ [][IngestNext]_vars

(* ------------------------------- claims -------------------------------- *)

Docs == Range(uploaded_files)

\* the document has an entry in document_results
Analysed(d) == \E i \in DOMAIN all_results : all_results[i].document_name = d

TimesSubmitted(d) == Cardinality({i \in DOMAIN submitted : submitted[i] = d})

\* every attempt of the finished call ended the way `tag` says
EveryAttempt(tag) ==
    /\ Len(attempt_log) = retry_budget
    /\ \A i \in DOMAIN attempt_log : attempt_log[i] = tag

\* value is a list with one WARNING finding per rule, in rule order, whose
\* details recommend manual review
IsWarningPerRule(value, rules) ==
    /\ ~ value.is_none
    /\ Len(value.findings) = Len(rules)
    /\ \A i \in DOMAIN rules :
         /\ value.findings[i].rule = rules[i]
         /\ value.findings[i].status = "WARNING"
         /\ value.findings[i].details = FallbackDetails

\* C1: whatever the attempts' outcomes, the value analyze_document returns
\* is not None and holds exactly one finding for each requested rule.
C1_OneFindingPerRule ==
    pc = "returned" =>
        /\ ~ ret.is_none
        /\ Len(ret.findings) = Len(selected_rules)
        /\ \A r \in Range(selected_rules) :
             Cardinality({i \in DOMAIN ret.findings : ret.findings[i].rule = r}) = 1

\* C2: when every one of the max_retries attempts ends in a JSON parse
\* failure, the value returned is one WARNING finding per rule, in rule
\* order, with the rule's name and the manual-review details.
C2_ParseFailureFallback ==
    (pc = "returned" /\ EveryAttempt("decode")) => IsWarningPerRule(ret, selected_rules)

C2_Witness ==
    /\ pc = "returned"
    /\ EveryAttempt("decode")
    /\ Len(selected_rules) = 2
    /\ Len(ret.findings) = 2

\* C3: when every attempt ends in a missing-fields failure of the structure
\* validation, the call degrades to one WARNING finding per rule instead of
\* failing the document.
C3_MissingFieldsDegrade ==
    (pc = "returned" /\ EveryAttempt("validate")) => IsWarningPerRule(ret, selected_rules)

\* C4: an exception whose text carries an invalid-key signature is never
\* retried: the step that handles it sleeps no time and leaves the call
\* failing at once, with no further upload call and no further attempt.
C4_AuthNeverRetried ==
    [][ ( /\ pc \in {"upload_except", "except"}
          /\ err.kind = "Exception"
          /\ IsAuthSignature(err.text) )
        => ( /\ pc' \in {"except", "finally"}
             /\ pc' = "finally" => (exit_kind' = "return" /\ ret'.is_none)
             /\ time_since_last' = time_since_last ) ]_vars

\* C5: once a document has failed with an authentication error, no later
\* document of the batch is submitted to analyze_document.
C5_AuthAbortsBatch ==
    \A d \in auth_docs : \A i \in DOMAIN submitted : submitted[i] <= d

\* a document that produced no result for another reason than the
\* invalid-key branch (read once the run is over)
FailedNonAuth(d) ==
    \/ d \in failed_read
    \/ TimesSubmitted(d) > 0 /\ ~ Analysed(d) /\ d \notin auth_docs

\* C6: a document that fails otherwise than by authentication does not stop
\* the batch: every later document (whose own read did not raise) is
\* submitted to analyze_document exactly once, the audit loop always takes
\* the returned value and goes on, and the run ends by storing a report.
C6_BatchContinues ==
    /\ pc = "done" =>
         /\ results.stored
         /\ \A d \in Docs : FailedNonAuth(d) =>
              \A e \in Docs : (e > d /\ e \notin failed_read) => TimesSubmitted(e) = 1
    /\ pc = "returned" => ENABLED CollectResult
    /\ pc = "loop" => ENABLED (StartDocument \/ StoreReport)

C6_Witness ==
    /\ pc = "done"
    /\ Len(uploaded_files) = 2
    /\ FailedNonAuth(1)
    /\ 1 \notin failed_read
    /\ Analysed(2)

\* C7: every outbound call to the model service is issued at least
\* min_delay seconds after the previous outbound call.
C7_EveryCallGated == calls_spaced

\* C8: two consecutive passes through wait_for_rate_limit are at least
\* min_delay seconds apart, and the pass sets last_request_time to the
\* time of the pass (no time has gone by since it when the gate is left).
C8_GatePassesSpaced ==
    /\ gate_gap = NoTime \/ gate_gap >= min_delay
    /\ pc = "tmpfile" => time_since_last = 0

C8_Witness ==
    /\ pc = "tmpfile"
    /\ idx = 2
    /\ attempt = 1
    /\ gate_gap = min_delay

\* C9: at the end of every attempt, on every exit path, the temporary file
\* of the attempt no longer exists and its attachment has been released:
\* nothing is held when the next attempt or document starts.
C9_AttemptReleasesResources ==
    pc \in {"gate", "returned", "loop", "done"} => (tmp_files = {} /\ remote_files = {})

\* C10: when the parsed response passes the structure validation, the
\* result keeps the number and order of the findings, their rule and
\* details, and every status that is PASS, FAIL or WARNING; any other status
\* becomes WARNING, and the response is not rejected.
C10_StatusRepair ==
    pc = "cleanup" =>
        /\ ~ result.is_none
        /\ Len(result.findings) = Len(parsed)
        /\ \A i \in DOMAIN parsed :
             /\ result.findings[i].rule = parsed[i].rule
             /\ result.findings[i].details = parsed[i].details
             /\ parsed[i].status \in {"PASS", "FAIL", "WARNING"}
                  => result.findings[i].status = parsed[i].status
             /\ parsed[i].status \notin {"PASS", "FAIL", "WARNING"}
                  => result.findings[i].status = "WARNING"

C10_Witness ==
    /\ pc = "cleanup"
    /\ Len(parsed) = 2
    /\ parsed[1].status = "MAYBE"
    /\ parsed[2].status = "FAIL"
    /\ result.findings[1].status = "WARNING"
    /\ result.findings[2].status = "FAIL"

\* the quota waits owed for the first n attempts of the log: base * 2^a for
\* every attempt a (0-based) that hit the quota branch and was not the last
RECURSIVE BackoffDue(_, _)
BackoffDue(log, n) ==
    IF n = 0 THEN 0
    ELSE BackoffDue(log, n - 1)
         + (IF log[n] = "quota" /\ n < retry_budget
            THEN backoff_base * Pow2(n - 1)
            ELSE 0)

\* C11: every quota error on an attempt a that is not the last makes the
\* call wait base * 2^a seconds; with max_retries = 3, quota errors on the
\* first two attempts and a valid response on the third, the value returned
\* is that response's findings and the backoff waits add up to at least
\* base * (2^0 + 2^1).
C11_QuotaBackoff ==
    /\ backoff_wait = BackoffDue(attempt_log, Len(attempt_log))
    /\ (pc = "finally" /\ attempt_log = <<"quota", "quota", "success">>) =>
          /\ exit_kind = "return"
          /\ ~ ret.is_none
          /\ ret.findings = ValidateFindings(parsed)
          /\ backoff_wait >= backoff_base * (Pow2(0) + Pow2(1))

C11_Witness ==
    /\ pc = "finally"
    /\ retry_budget = 3
    /\ attempt = 2
    /\ attempt_log = <<"quota", "quota", "success">>
    /\ backoff_wait = 30
    /\ Len(ret.findings) = 2

\* C12: within one attempt the upload is called at most 3 times (every pass
\* of the upload loop makes one call, upload_attempt counting the passes
\* from 0); a failed call that is not the third is followed by a sleep of 2
\* seconds and another call; the error reaches the except chain of the
\* attempt only after the third failed call, and without a sleep; a call
\* that succeeds leaves the loop at once.
C12_UploadRetries ==
    [][ /\ pc = "upload" => upload_attempt < max_upload_retries
        /\ (pc = "upload_except" /\ upload_attempt < max_upload_retries - 1) =>
              /\ pc' = "upload"
              /\ upload_attempt' = upload_attempt + 1
              /\ time_since_last' = Min(time_since_last + upload_retry_delay, min_delay)
        /\ (pc = "upload_except" /\ pc' = "except") =>
              /\ upload_attempt = max_upload_retries - 1
              /\ err' = err
              /\ time_since_last' = time_since_last
        /\ (pc = "upload" /\ uploaded_file' # NoFile) => pc' = "poll"
      ]_vars

C12_Witness ==
    /\ pc = "except"
    /\ err.site = "upload"
    /\ attempt = 1
    /\ time_since_last = min_delay

\* C13: the phases of an attempt come in the order upload, readiness wait,
\* generation, parsing: generation is reached only with the attachment
\* uploaded in this very attempt still held and the last status check of it
\* reporting ACTIVE, the readiness wait only with that attachment, and
\* parsing only with the text a generation of this attempt gave.
C13_PhaseOrder ==
    /\ pc \in {"poll", "final_check", "generate", "parse"} =>
          /\ uploaded_file = FileId(idx, attempt)
          /\ uploaded_file \in remote_files
    /\ pc \in {"generate", "parse"} => file_status = "ACTIVE"
    /\ pc = "parse" <=> response # <<>>

C13_Witness ==
    /\ pc = "generate"
    /\ idx = 2
    /\ attempt = 1
    /\ uploaded_file = FileId(2, 1)
    /\ file_status = "ACTIVE"

\* the longest an outbound call takes
MaxLatency == CHOOSE l \in Latency : \A m \in Latency : m <= l

\* the attempt whose final status check found the attachment not ACTIVE
\* ends as a failure that uses up one attempt: it is retried when attempts
\* remain, and the call returns None when it was the last
TimeoutUsesAttempt ==
    (pc = "except" /\ err.site = "not_ready") =>
        /\ attempt_log' = Append(attempt_log, "other")
        /\ attempt < retry_budget - 1 => exit_kind' = "next"
        /\ attempt = retry_budget - 1 => (exit_kind' = "return" /\ ret'.is_none)

\* C14: an attachment that is not ACTIVE when the readiness wait is over
\* fails the attempt and uses up one attempt of the retry budget (retry when
\* attempts remain, terminal failure otherwise), and polling never runs
\* past the timeout: the time waited never exceeds max_wait.
C14_ReadinessTimeout ==
    [][ TimeoutUsesAttempt /\ (pc = "poll" => waited' <= max_wait) ]_vars

\* C14, as the code has it: the timeout is tested before each poll only, so
\* no poll starts once max_wait seconds have gone by, and the poll under way
\* at the timeout ends less than one poll interval plus the latency of its
\* status call after it.
C14_ReadinessTimeout_Amended ==
    [][ /\ TimeoutUsesAttempt
        /\ (pc = "poll" /\ waited' > waited) =>
              /\ waited < max_wait
              /\ waited' < max_wait + poll_interval + MaxLatency
      ]_vars

C14_Witness ==
    /\ pc = "poll"
    /\ waited = max_wait + poll_interval
    /\ file_status = "PROCESSING"
    /\ attempt = 1

\* the findings counted by the stored report
TotalChecks == results.passed + results.failed + results.warnings

\* C15: whenever a report is stored over a positive number of findings, its
\* compliance_rate is 100 * passed / total rounded to the nearest integer:
\* it differs from the exact quotient by at most one half.
C15_RateRounded ==
    (results.stored /\ TotalChecks > 0) =>
        LET diff == results.compliance_rate * TotalChecks - 100 * results.passed IN
          /\ 2 * diff <= TotalChecks
          /\ 2 * diff >= - TotalChecks

\* C16: a run that counted no finding at all still ends with a stored
\* report, whose compliance_rate, passed, failed and warnings are all 0:
\* the rate is not computed by a division.
C16_EmptyReport ==
    /\ (pc = "loop" /\ idx > Len(uploaded_files)) => ENABLED StoreReport
    /\ pc = "done" => results.stored
    /\ (results.stored /\ all_results = <<>>) =>
          /\ results.compliance_rate = 0
          /\ results.passed = 0
          /\ results.failed = 0
          /\ results.warnings = 0
          /\ results.document_results = <<>>

C16_Witness ==
    /\ pc = "done"
    /\ results.stored
    /\ Len(uploaded_files) = 2
    /\ TimesSubmitted(1) = 1
    /\ TimesSubmitted(2) = 1
    /\ all_results = <<>>
    /\ results.compliance_rate = 0

\* C17: every finding of a value analyze_document returns carries as its
\* rule the name of one of the rules it was given.
C17_RuleNamesGiven ==
    pc = "returned" =>
        \A i \in DOMAIN ret.findings : ret.findings[i].rule \in Range(selected_rules)

\* the keyword tokens of a rule description, lowercased
LowerKeywords(description) ==
    LET kws == Split(description) IN [j \in DOMAIN kws |-> LowerText(kws[j])]

\* C18: the evidence of a rule is the number of the chunks its search
\* returned, at most k of them, that contain at least one keyword token of
\* the description, the tokens being lowercased and the match
\* case-insensitive; a chunk that matches several tokens counts once.
C18_EvidenceCaseInsensitive ==
    \A i \in DOMAIN rv_results :
        /\ Cardinality(retrieved[i]) <= k
        /\ rv_results[i].Evidence =
             Cardinality({ c \in retrieved[i] :
                 HasKeyword(chunks[c].page_content, LowerKeywords(rv_rules[i].description)) })

\* C19: every row has an evidence count in 0..5 and the verdict of its
\* band: COMPLIANT and 80% from 3 up, PARTIAL and 50% for 1 and 2,
\* NON_COMPLIANT and 30% for 0.
C19_VerdictBands ==
    \A i \in DOMAIN rv_results :
        LET row == rv_results[i] IN
          /\ row.Evidence \in 0..k
          /\ row.Evidence >= 3 => (row.Status = "COMPLIANT" /\ row.Confidence = "80%")
          /\ row.Evidence \in 1..2 => (row.Status = "PARTIAL" /\ row.Confidence = "50%")
          /\ row.Evidence = 0 => (row.Status = "NON_COMPLIANT" /\ row.Confidence = "30%")

C19_Witness ==
    /\ rv_pc = "done"
    /\ ~ results_df.is_none
    /\ results_df.rows[1].Evidence = 3
    /\ results_df.rows[1].Status = "COMPLIANT"
    /\ results_df.rows[2].Evidence = 1
    /\ results_df.rows[2].Status = "PARTIAL"

\* C20: the stored result of a run over n documents and r rules has n * r
\* rows, one per (document, rule) pair, each naming its document.
C20_RowPerDocumentAndRule ==
    rv_pc = "done" =>
        /\ Len(results_df.rows) = Len(rv_uploaded_files) * Len(rv_rules)
        /\ \A i \in DOMAIN results_df.rows : "Document" \in DOMAIN results_df.rows[i]

\* the page gave a text with a character that is not white space
HasText(p) == ~ PageRaises(p) /\ \E i \in DOMAIN p : p[i] # " "

\* the Documents due for the pages from page_num on when every page without
\* text is dropped and the pages after it are still read
RECURSIVE KeptPages(_, _, _)
KeptPages(source, pages, page_num) ==
    IF page_num > Len(pages) THEN <<>>
    ELSE (IF HasText(pages[page_num])
          THEN <<[page_content |-> pages[page_num], source |-> source,
                  page |-> page_num]>>
          ELSE <<>>)
         \o KeptPages(source, pages, page_num + 1)

\* the Documents due for the first n uploaded PDFs
RECURSIVE KeptDocuments(_)
KeptDocuments(n) ==
    IF n = 0 THEN <<>>
    ELSE KeptDocuments(n - 1) \o KeptPages(n, rv_uploaded_files[n], 1)

\* C21: page extraction goes on past a page that is empty, blank, None or
\* unreadable: the audit is never aborted while the PDFs are being read,
\* and once they are read the Documents are those of every page with text
\* of every PDF, in order.
C21_BadPageSkipped ==
    /\ rv_pc = "error" => rv_file > Len(rv_uploaded_files)
    /\ rv_pc \in {"rules", "done"} => documents = KeptDocuments(Len(rv_uploaded_files))

\* the Documents of one PDF, in the order they were appended
SegmentsOf(source) ==
    LET FromSource(d) == d.source = source IN SelectSeq(documents, FromSource)

\* C22: for a PDF whose pages were all extracted, there is one segment per
\* page with non-blank text, the segments are in page order, and each
\* carries the text and the 1-based number of its page.
C22_SegmentPerTextPage ==
    \A f \in 1..(rv_file - 1) :
        LET pages == rv_uploaded_files[f]
            segs == SegmentsOf(f) IN
          /\ Len(segs) = Cardinality({n \in DOMAIN pages : HasText(pages[n])})
          /\ \A i \in DOMAIN segs :
               /\ segs[i].page \in DOMAIN pages
               /\ HasText(pages[segs[i].page])
               /\ segs[i].page_content = pages[segs[i].page]
          /\ \A i, j \in DOMAIN segs : i < j => segs[i].page < segs[j].page

C22_Witness ==
    /\ rv_file = 2
    /\ Len(rv_uploaded_files[1]) = 3
    /\ IsBlank(rv_uploaded_files[1][2])
    /\ Len(documents) = 2
    /\ documents[1].page = 1
    /\ documents[2].page = 3

\* C23: a PDF that yields no chunks is not embedded, has no index, metadata or
\* chunks file written and raises nothing; the folder loop calls
\* ingest_pdf_to_faiss once for every PDF in order, whatever the earlier PDFs
\* did, and is never stuck before it has finished
C23_NoChunksSkipped ==
    /\ \A p \in chunkless :
         /\ p \notin embedded
         /\ \A kind \in FileKinds : <<p, kind>> \notin written
         /\ p \notin ingest_errors
    /\ ingest_calls = [j \in 1..Len(ingest_calls) |-> j]
    /\ Len(ingest_calls) =
         IF ig_pc \in {"start", "returned_early", "loop", "completed"}
         THEN pdf_i - 1 ELSE pdf_i
    /\ ig_pc = "completed" => Len(ingest_calls) = Len(pdfs)
    /\ ig_pc \notin {"completed", "returned_early"} => ENABLED IngestNext

\* a folder whose first PDF raised, whose second gave no chunks and whose
\* third was ingested in full
C23_Witness ==
    /\ ig_pc = "completed"
    /\ 1 \in ingest_errors
    /\ 2 \in chunkless
    /\ \A kind \in FileKinds : <<3, kind>> \in written

\* the text is wrapped in fence markers: ``` or ```json before it, ``` after it
Wrapped(text) ==
    /\ Len(text) >= 3
    /\ text[1].tok \in {"fence_json", "fence"}
    /\ text[Len(text)].tok = "fence"

\* the text between the two markers
Unwrapped(text) == SubSeq(text, 2, Len(text) - 1)

\* C24: when the response is a valid findings object wrapped in fence markers,
\* the parse step raises no decoding error and, when it goes on, holds the
\* findings json.loads gives for the unwrapped text
C24_FencedJsonParses ==
    [][ (/\ pc = "parse"
         /\ Wrapped(response)
         /\ JsonLoads(Unwrapped(response)).json
         /\ JsonLoads(Unwrapped(response)).has_key
         /\ JsonLoads(Unwrapped(response)).is_list)
        => /\ err' # DecodeError
           /\ pc' = "cleanup" => parsed' = JsonLoads(Unwrapped(response)).findings ]_vars

\* the findings of the end-to-end scenario
ScenarioFindings == Alternating(COMPLIANCE_RULES)

\* one document audited against the two rules, in its first attempt
ScenarioRun ==
    /\ Len(uploaded_files) = 1
    /\ selected_rules = COMPLIANCE_RULES
    /\ attempt = 0

\* the response of the scenario: the JSON object itself, bare or in fences
ScenarioResponses ==
    { t \in ResponseTexts(ListBody(ScenarioFindings)) : t[1].tok # "prose" }

ScenarioEntry == [document_name |-> uploaded_files[1], findings |-> ScenarioFindings]

ScenarioReport ==
    [stored |-> TRUE, compliance_rate |-> 50, passed |-> 1, failed |-> 1,
     warnings |-> 0, document_results |-> <<ScenarioEntry>>]

\* C25: one document, two rules, the first response being Data Privacy = PASS
\* and Financial Reporting = FAIL: the response is parsed to those findings,
\* they are returned without another attempt, counted as one pass and one
\* failure, and the stored report has passed = 1, failed = 1, warnings = 0,
\* compliance_rate = 50 and the one entry holding them
C25_EndToEnd ==
    [][ /\ (ScenarioRun /\ pc = "parse"
              /\ response \in ScenarioResponses)
           => (pc' = "cleanup" /\ result' = Findings(ScenarioFindings))
        /\ (ScenarioRun /\ pc = "cleanup" /\ result = Findings(ScenarioFindings))
           => (pc' = "finally" /\ exit_kind' = "return"
                 /\ ret' = Findings(ScenarioFindings))
        /\ (ScenarioRun /\ pc = "finally" /\ exit_kind = "return"
              /\ ret = Findings(ScenarioFindings))
           => (pc' = "returned" /\ ret' = ret /\ attempt' = 0)
        /\ (ScenarioRun /\ pc = "returned" /\ ret = Findings(ScenarioFindings))
           => (/\ pc' = "loop"
               /\ idx' > Len(uploaded_files)
               /\ total_passed' = 1
               /\ total_failed' = 1
               /\ total_warnings' = 0
               /\ all_results' = <<ScenarioEntry>>)
        /\ (ScenarioRun /\ pc = "loop" /\ idx > Len(uploaded_files)
              /\ all_results = <<ScenarioEntry>>)
           => (pc' = "done" /\ results' = ScenarioReport) ]_vars

\* the report of the scenario has been stored
C25_Witness ==
    /\ pc = "done"
    /\ Len(uploaded_files) = 1
    /\ selected_rules = COMPLIANCE_RULES
    /\ results = ScenarioReport

\* the positions inside a call of analyze_document, in the order an attempt
\* goes through them
CallPhases ==
    <<"gate", "tmpfile", "upload", "poll", "final_check", "generate", "parse",
      "cleanup", "except", "finally", "returned">>

PhaseOf(p) == IF p = "upload_except" THEN "upload" ELSE p

InCall == PhaseOf(pc) \in Range(CallPhases) \ {"returned"}

Rank(p) == CHOOSE i \in DOMAIN CallPhases : CallPhases[i] = PhaseOf(p)

\* progress inside a phase: the passes of the upload loop and the time spent
\* in the readiness loop
PhaseProgress ==
    IF pc = "upload" THEN 2 * upload_attempt
    ELSE IF pc = "upload_except" THEN 2 * upload_attempt + 1
    ELSE IF pc = "poll" THEN waited
    ELSE 0

\* how far the call has come: attempts, then phases, then progress in a phase
Measure ==
    (attempt * (Len(CallPhases) + 1) + Rank(pc)) * (WaitedCap + 2 * max_upload_retries + 1)
    + PhaseProgress

\* C26: analyze_document terminates when every external call returns or
\* raises: inside the call a step is always possible, every step brings the
\* call further (so the gate, the generation and each pass of the upload loop
\* are passed at most once in an attempt), attempts are numbered below
\* max_retries, the upload loop makes at most 3 calls, an attempt is started
\* only by the call itself after an attempt that returned nothing, and none
\* is started once the call has returned
C26_Terminates ==
    /\ [](InCall => /\ ENABLED Next
                    /\ attempt < retry_budget
                    /\ retry_budget = max_retries
                    /\ pc = "upload" => upload_attempt < max_upload_retries)
    /\ [][ /\ InCall => /\ PhaseOf(pc') \in Range(CallPhases)
                        /\ Measure' > Measure
                        /\ attempt' \in {attempt, attempt + 1}
           /\ (InCall /\ pc' = "gate") =>
                 (pc = "finally" /\ exit_kind # "return" /\ attempt' = attempt + 1)
           /\ (InCall /\ attempt' # attempt) => pc' = "gate"
           /\ pc = "returned" => pc' = "loop"
           /\ (pc = "loop" /\ pc' = "gate") => attempt' = 0 ]_vars

\* the call has returned from its last attempt
C26_Witness ==
    /\ pc = "returned"
    /\ Len(attempt_log) = max_retries
    /\ attempt = max_retries - 1

\* the findings listed in the entries from position i on
RECURSIVE FindingsListed(_, _)
FindingsListed(entries, i) ==
    IF i > Len(entries) THEN 0
    ELSE Len(entries[i].findings) + FindingsListed(entries, i + 1)

\* the entries name documents handled so far, each once, in upload order
InUploadOrder(entries) ==
    /\ \A i \in DOMAIN entries : entries[i].document_name \in Range(submitted)
    /\ \A i, j \in DOMAIN entries :
         i < j => entries[i].document_name < entries[j].document_name

\* C27: the three counts add up to the findings listed in document_results,
\* in the running totals and in the stored report; a document that returned
\* no result, or could not be read, changes neither the counts nor
\* document_results; a document that returned findings gets one entry, at
\* the end, so that the entries are in upload order, one for a document
C27_CountsMatchEntries ==
    /\ [](/\ total_passed + total_failed + total_warnings
               = FindingsListed(all_results, 1)
          /\ InUploadOrder(all_results)
          /\ results.stored =>
               /\ results.passed + results.failed + results.warnings
                    = FindingsListed(results.document_results, 1)
               /\ results.document_results = all_results
               /\ InUploadOrder(results.document_results))
    /\ [][ /\ (pc = "returned" /\ ret.is_none) =>
                 (UNCHANGED <<all_results, total_passed, total_failed, total_warnings>>
                    /\ idx' = idx + 1)
           /\ (pc = "returned" /\ ~ ret.is_none) =>
                 (/\ all_results' = Append(all_results,
                        [document_name |-> uploaded_files[idx], findings |-> ret.findings])
                  /\ idx' = idx + 1)
           /\ pc # "returned" => UNCHANGED <<all_results, total_passed, total_failed,
                                             total_warnings>> ]_vars

\* a stored report of two documents, the first without a result, the second
\* with an entry of two findings, one of them counted as a warning
C27_Witness ==
    /\ pc = "done"
    /\ Len(uploaded_files) = 2
    /\ Len(results.document_results) = 1
    /\ results.document_results[1].document_name = 2
    /\ Len(results.document_results[1].findings) = 2
    /\ results.warnings = 2

\* C28: when an attempt ends, the delete of the attachment it uploaded has
\* been requested exactly once and the attachment is gone, whatever the path
\* the attempt took; an attempt that uploaded nothing requested no delete
C28_DeleteOnce ==
    [][ pc = "finally" =>
          /\ uploaded_file # NoFile =>
               (delete_requests' = 1 /\ uploaded_file \notin remote_files')
          /\ uploaded_file = NoFile => delete_requests' = 0 ]_vars

====
